---- MODULE Spec2Model ----
(***************************************************************************)
(* Model of the vector store of the invoice reimbursement system           *)
(* (app/vector_store.py), of its callers (app/api.py, app/pages) and of    *)
(* the processes and threads that share it.                                *)
(*                                                                         *)
(* Python strings are sequences of one-character strings, so that          *)
(* concatenation, lower(), startswith and the substring test `in` are      *)
(* computed character by character.  Python's None is NoneValue.           *)
(***************************************************************************)
EXTENDS Integers, Sequences, FiniteSets, TLC

\* ------------------------------------------------------------------ bounds
\* The most records one process's store holds (the code has no limit).
MaxRecords == 3
\* The longest batch handed to one append call.
MaxBatch == 2
\* The embedding dimension, scaled down from the 384 of all-MiniLM-L6-v2.
EmbDim == 2
\* Each embedding coordinate ranges over 0..EmbRange-1.
EmbRange == 3
\* The most records a store holds when several callers run side by side.
MaxShared == 2
\* The most invoices one /analyze_invoices request holds.
MaxInvoices == 2
\* The most words a query of the filter extraction is put together from.
MaxWords == 3
\* The largest top_k a direct search call passes.
MaxTopK == 3

\* ----------------------------------------------------------------- strings
NoneValue == <<"<None>">>

UpperChars == <<"A","B","C","D","E","F","G","H","I","J","K","L","M",
                "N","O","P","Q","R","S","T","U","V","W","X","Y","Z">>
LowerChars == <<"a","b","c","d","e","f","g","h","i","j","k","l","m",
                "n","o","p","q","r","s","t","u","v","w","x","y","z">>
DigitChars == <<"0","1","2","3","4","5","6","7","8","9">>

IndexIn(c, chars) ==
    IF \E i \in 1..Len(chars) : chars[i] = c
    THEN CHOOSE i \in 1..Len(chars) : chars[i] = c
    ELSE 0

IsUpper(c) == IndexIn(c, UpperChars) > 0
IsLower(c) == IndexIn(c, LowerChars) > 0
IsDigit(c) == IndexIn(c, DigitChars) > 0

\* str.lower() of one character, and of a string.
CharLower(c) == IF IsUpper(c) THEN LowerChars[IndexIn(c, UpperChars)] ELSE c
lower(s) == [i \in 1..Len(s) |-> CharLower(s[i])]

\* Python's `needle in haystack` on strings.
Contains(needle, haystack) ==
    \E off \in 0..(Len(haystack) - Len(needle)) :
        \A j \in 1..Len(needle) : haystack[off + j] = needle[j]

\* str.startswith
startswith(s, prefix) ==
    /\ Len(prefix) <= Len(s)
    /\ \A j \in 1..Len(prefix) : s[j] = prefix[j]

\* str(v): None prints as "None", a string is itself.
NoneText == <<"N","o","n","e">>
str(v) == IF v = NoneValue THEN NoneText ELSE v

\* ordinal of a character, for the embedder's arithmetic
Ord(c) ==
    IF IsLower(c) THEN IndexIn(c, LowerChars)
    ELSE IF IsUpper(c) THEN 26 + IndexIn(c, UpperChars)
    ELSE IF IsDigit(c) THEN 52 + IndexIn(c, DigitChars)
    ELSE 63

RECURSIVE Weight(_)
Weight(s) == IF s = <<>> THEN 0 ELSE Ord(Head(s)) + Weight(Tail(s))

\* -------------------------------------------------------------- the records
S_Declined == <<"D","e","c","l","i","n","e","d">>
S_FullyReimbursed == <<"F","u","l","l","y"," ","R","e","i","m","b","u","r","s","e","d">>
S_PartiallyReimbursed == <<"P","a","r","t","i","a","l","l","y"," ","R","e","i","m","b","u","r","s","e","d">>

Today == <<"2","0","2","4","-","0","5","-","0","1">>

\* Analysis dicts as the callers build them (api.py 41-48, 2_Reimbursement.py
\* 51-58): all six keys present; status, reason and employee_name are whatever
\* the LLM's JSON held, None included.
TaxiDeclined ==
    [invoice_id    |-> <<"a",".","p","d","f">>,
     status        |-> S_Declined,
     reason        |-> <<"o","v","e","r"," ","c","a","p">>,
     employee_name |-> <<"J","a","n","e"," ","D","o","e">>,
     date          |-> Today,
     full_text     |-> <<"T","a","x","i"," ","f","a","r","e"," ","$","5","0">>]
LunchFull ==
    [invoice_id    |-> <<"b",".","p","d","f">>,
     status        |-> S_FullyReimbursed,
     reason        |-> <<"o","k">>,
     employee_name |-> <<"J","o","h","n"," ","R","o","e">>,
     date          |-> Today,
     full_text     |-> <<"L","u","n","c","h"," ","$","1","2">>]
HotelPartial ==
    [invoice_id    |-> <<"a",".","p","d","f">>,
     status        |-> S_PartiallyReimbursed,
     reason        |-> <<"h","a","l","f">>,
     employee_name |-> NoneValue,
     date          |-> Today,
     full_text     |-> <<"H","o","t","e","l"," ","$","9","0">>]
NullStatus ==
    [invoice_id    |-> <<"c",".","p","d","f">>,
     status        |-> NoneValue,
     reason        |-> <<"o","k">>,
     employee_name |-> <<"J","a","n","e"," ","D","o","e">>,
     date          |-> Today,
     full_text     |-> <<"B","u","s"," ","$","3">>]

Analyses == {TaxiDeclined, LunchFull, HotelPartial, NullStatus}

RECURSIVE SeqsUpTo(_, _)
SeqsUpTo(S, n) ==
    IF n = 0 THEN {<<>>}
    ELSE LET shorter == SeqsUpTo(S, n - 1)
         IN  shorter \cup {Append(s, x) : s \in {t \in shorter : Len(t) = n - 1}, x \in S}

Batches == SeqsUpTo(Analyses, MaxBatch)

\* The batches of the callers that run side by side: both callers pass a
\* non-empty list (api.py 88, 2_Reimbursement.py 61).
ConcurrentBatches ==
    {b \in SeqsUpTo({TaxiDeclined, LunchFull, NullStatus}, MaxBatch) : b # <<>>}

\* ------------------------------------------------------------ the embedder
StatusSep == <<"\n","S","t","a","t","u","s",":"," ">>
ReasonSep == <<"\n","R","e","a","s","o","n",":"," ">>

\* vector_store.py 35: Python's + on strings raises TypeError on None.
ConcatOk(analysis) ==
    /\ analysis.full_text # NoneValue
    /\ analysis.status # NoneValue
    /\ analysis.reason # NoneValue

text_to_embed(analysis) ==
    analysis.full_text \o StatusSep \o analysis.status \o ReasonSep \o analysis.reason

\* embedding_model.encode: a deterministic map from a text to a vector of
\* EmbDim coordinates (the sentence transformer is outside the repository).
EncodeWith(weight, length) == [j \in 1..EmbDim |-> (weight + j * length) % EmbRange]
encode(text) == CHOOSE v \in {EncodeWith(weight, Len(text)) : weight \in {Weight(text)}} : TRUE

\* vector_store.py 39-45: the metadata dict, without full_text.
MetaOf(analysis) ==
    [invoice_id    |-> analysis.invoice_id,
     status        |-> analysis.status,
     reason        |-> analysis.reason,
     employee_name |-> analysis.employee_name,
     date          |-> analysis.date]

\* faiss_index.add(embedding): IndexFlatL2 stores the vector at the end.
IndexAddFront(index, embedding) == <<embedding>> \o index
IndexAdd(index, embedding) == Append(index, embedding)

\* ---------------------------------------------------------- the two artifacts
RECURSIVE Flatten(_)
Flatten(vectors) ==
    IF vectors = <<>> THEN <<>> ELSE Head(vectors) \o Flatten(Tail(vectors))

NoIndexFile == [exists |-> FALSE, d |-> 0, ntotal |-> 0, codes |-> <<>>]
NoMetaFile == [exists |-> FALSE, items |-> <<>>]

\* faiss.write_index of an IndexFlatL2: dimension, count, the flat codes.
write_index_dropping_last(index) ==
    [exists |-> TRUE, d |-> EmbDim,
     ntotal |-> IF Len(index) > 1 THEN Len(index) - 1 ELSE Len(index),
     codes |-> Flatten(index)]
write_index(index) ==
    [exists |-> TRUE, d |-> EmbDim, ntotal |-> Len(index), codes |-> Flatten(index)]

\* faiss.read_index: cut the codes back into ntotal vectors of d coordinates.
read_index(file) ==
    [i \in 1..file.ntotal |-> [j \in 1..file.d |-> file.codes[(i - 1) * file.d + j]]]

\* The keys of a metadata dict in insertion order.
MetaKeys == <<"invoice_id", "status", "reason", "employee_name", "date">>

\* pickle.dump of the list of dicts: each dict as its (key, value) items.
pickle_dump(list) ==
    [exists |-> TRUE,
     items |-> [i \in 1..Len(list) |->
                  [k \in 1..Len(MetaKeys) |-> <<MetaKeys[k], list[i][MetaKeys[k]]>>]]]

\* pickle.load: rebuild each dict from its items.
pickle_load(file) ==
    [i \in 1..Len(file.items) |->
        [key \in {file.items[i][k][1] : k \in 1..Len(file.items[i])} |->
            LET k == CHOOSE k \in 1..Len(file.items[i]) : file.items[i][k][1] = key
            IN  file.items[i][k][2]]]

\* vector_store.py 18: os.path.exists of both paths.
BothExist(index_file, meta_file) == index_file.exists /\ meta_file.exists

\* vector_store.py 17-24: what importing the module leaves in the globals.
Load(index_file, meta_file) ==
    IF BothExist(index_file, meta_file)
    THEN [faiss_index |-> read_index(index_file), metadata_list |-> pickle_load(meta_file)]
    ELSE [faiss_index |-> <<>>, metadata_list |-> <<>>]


\* ------------------------------------------------------------ search_invoices
\* An empty dict.
NoFilters == [k \in {} |-> <<>>]

\* vector_store.py 61-66: the inner function match.
match(meta, filters) ==
    \A k \in DOMAIN filters :
        ~(k \in DOMAIN meta /\ ~Contains(lower(filters[k]), lower(str(meta[k]))))

\* vector_store.py 59-67: the positions kept, ascending (1-based here).
RECURSIVE MatchingFrom(_, _, _)
MatchingFrom(list, filters, i) ==
    IF i > Len(list) THEN <<>>
    ELSE (IF match(list[i], filters) THEN <<i>> ELSE <<>>) \o MatchingFrom(list, filters, i + 1)

AllIndices(list) == [i \in 1..Len(list) |-> i]

filtered_indices(list, filters) ==
    IF DOMAIN filters # {} THEN MatchingFrom(list, filters, 1) ELSE AllIndices(list)

\* Squared Euclidean distance, the metric of IndexFlatL2.
RECURSIVE SumSquares(_, _, _)
SumSquares(u, v, j) ==
    IF j > Len(u) THEN 0 ELSE (u[j] - v[j]) * (u[j] - v[j]) + SumSquares(u, v, j + 1)
L2sqr(u, v) == SumSquares(u, v, 1)

Min(a, b) == IF a <= b THEN a ELSE b

\* temp_index.search(query_vec, k) over n vectors at distances dist: FAISS
\* returns k distinct positions, nearest first, by ascending distance.  Which of
\* several equidistant vectors comes first is decided inside the library
\* (its top-k heap), not by this code: every order of a tie is allowed.
KnnAnswers(dist, n, k) ==
    {I \in [1..k -> 1..n] :
        /\ \A a, b \in 1..k : a # b => I[a] # I[b]
        /\ \A a, b \in 1..k : a < b => dist[I[a]] <= dist[I[b]]
        /\ \A j \in 1..n : (\A a \in 1..k : I[a] # j) => dist[j] >= dist[I[k]]}

\* vector_store.py 71-80: the distance of each kept vector to the query vector.
SearchDistancesUnfiltered(index, kept, query_vec) ==
    [j \in 1..Len(kept) |-> L2sqr(index[j], query_vec)]
SearchDistances(index, kept, query_vec) ==
    [j \in 1..Len(kept) |-> L2sqr(index[kept[j]], query_vec)]

\* vector_store.py 56-85 on a store (index, list): the lists the call can
\* return.  Each result is the tuple (score, metadata); real_idx is the local
\* of line 83, kept with it.
search_invoices(index, list, query, top_k, filters) ==
    IF Len(list) = 0 THEN {<<>>}
    ELSE UNION {
           IF Len(kept) = 0 THEN {<<>>}
           ELSE UNION {
                  {[r \in 1..Min(top_k, Len(kept)) |->
                      [score |-> dist[I[r]], meta |-> list[kept[I[r]]], real_idx |-> kept[I[r]]]]
                   : I \in KnnAnswers(dist, Len(kept), Min(top_k, Len(kept)))}
                  : dist \in {SearchDistances(index, kept, query_vec) :
                                 query_vec \in {encode(query)}}}
           : kept \in {filtered_indices(list, filters)}}

\* reconstruct_n(0, len(metadata_list)) needs that many vectors in the index.
ReconstructOk(index, list) == Len(list) <= Len(index)


\* --------------------------------------------------- extract_metadata_filters
K_declined == <<"d","e","c","l","i","n","e","d">>
K_reimbursed == <<"r","e","i","m","b","u","r","s","e","d">>
K_partial == <<"p","a","r","t","i","a","l">>
K_partially_reimbursed == <<"p","a","r","t","i","a","l","l","y"," ","r","e","i","m","b","u","r","s","e","d">>
K_fully_reimbursed == <<"f","u","l","l","y"," ","r","e","i","m","b","u","r","s","e","d">>

\* vector_store.py 94-100: the dict literal, in its insertion order, which is
\* the order the loop of line 101 visits.
status_keywords_specific_first ==
    << <<K_declined, S_Declined>>,
       <<K_partially_reimbursed, S_PartiallyReimbursed>>,
       <<K_fully_reimbursed, S_FullyReimbursed>>,
       <<K_reimbursed, S_FullyReimbursed>>,
       <<K_partial, S_PartiallyReimbursed>> >>
status_keywords ==
    << <<K_declined, S_Declined>>,
       <<K_reimbursed, S_FullyReimbursed>>,
       <<K_partial, S_PartiallyReimbursed>>,
       <<K_partially_reimbursed, S_PartiallyReimbursed>>,
       <<K_fully_reimbursed, S_FullyReimbursed>> >>

\* vector_store.py 101-104: the first keyword found in query.lower(); 0 if none.
RECURSIVE FirstKeyword(_, _)
FirstKeyword(query, i) ==
    IF i > Len(status_keywords) THEN 0
    ELSE IF Contains(status_keywords[i][1], lower(query)) THEN i
    ELSE FirstKeyword(query, i + 1)

CharAt(s, i) == IF i >= 1 /\ i <= Len(s) THEN s[i] ELSE ""

\* [a-z]+ from position i, greedy: the last position of the run, i - 1 if none.
RECURSIVE LowerRunEnd(_, _)
LowerRunEnd(s, i) == IF IsLower(CharAt(s, i)) THEN LowerRunEnd(s, i + 1) ELSE i - 1

\* [A-Z][a-z]+ from position i: the last position of the word, 0 if no match.
WordEnd(s, i) ==
    IF IsUpper(CharAt(s, i)) /\ IsLower(CharAt(s, i + 1)) THEN LowerRunEnd(s, i + 1) ELSE 0

\* [A-Z][a-z]+(?: [A-Z][a-z]+)* from position i, greedy; 0 if no match.
RECURSIVE NameEnd(_, _)
NameEnd(s, i) ==
    LET e == WordEnd(s, i)
    IN  IF e = 0 THEN 0
        ELSE IF CharAt(s, e + 1) = " " /\ WordEnd(s, e + 2) > 0 THEN NameEnd(s, e + 2)
        ELSE e

For_ == <<"f","o","r"," ">>
By_ == <<"b","y"," ">>
StartsAt(s, i, lit) ==
    /\ i + Len(lit) - 1 <= Len(s)
    /\ \A j \in 1..Len(lit) : s[i + j - 1] = lit[j]

\* Where group 1 starts if (?:for|by) matches at i, else 0.
NameStart(s, i) ==
    IF StartsAt(s, i, For_) THEN i + Len(For_)
    ELSE IF StartsAt(s, i, By_) THEN i + Len(By_)
    ELSE 0

NameMatchesAt(s, i) == NameStart(s, i) > 0 /\ NameEnd(s, NameStart(s, i)) > 0

\* vector_store.py 106-108: re.search is the leftmost match; group(1).
HasName(s) == \E i \in 1..Len(s) : NameMatchesAt(s, i)
NameGroup(s) ==
    LET i == CHOOSE i \in 1..Len(s) :
                 NameMatchesAt(s, i) /\ \A h \in 1..(i - 1) : ~NameMatchesAt(s, h)
    IN  SubSeq(s, NameStart(s, i), NameEnd(s, NameStart(s, i)))

IsDateSep(c) == c = "-" \/ c = "/"
\* \d{4}[-/]\d{2}[-/]\d{2} at position i.
DateMatchesAt(s, i) ==
    /\ i + 9 <= Len(s)
    /\ \A j \in {0, 1, 2, 3, 5, 6, 8, 9} : IsDigit(s[i + j])
    /\ IsDateSep(s[i + 4])
    /\ IsDateSep(s[i + 7])

\* vector_store.py 110-112.
HasDate(s) == \E i \in 1..Len(s) : DateMatchesAt(s, i)
DateGroup(s) ==
    LET i == CHOOSE i \in 1..Len(s) :
                 DateMatchesAt(s, i) /\ \A h \in 1..(i - 1) : ~DateMatchesAt(s, h)
    IN  SubSeq(s, i, i + 9)

\* vector_store.py 87-113: the dict holds only the keys found.
extract_metadata_filters(query) ==
    LET keys == (IF FirstKeyword(query, 1) > 0 THEN {"status"} ELSE {})
                \cup (IF HasName(query) THEN {"employee_name"} ELSE {})
                \cup (IF HasDate(query) THEN {"date"} ELSE {})
    IN  [k \in keys |->
            IF k = "status" THEN status_keywords[FirstKeyword(query, 1)][2]
            ELSE IF k = "employee_name" THEN NameGroup(query)
            ELSE DateGroup(query)]

\* ------------------------------------------------------------------ api.py
ErrorPrefix == <<"[","E","R","R","O","R">>
ZipErrorName == <<"[","Z","I","P"," ","E","R","R","O","R","]">>
ExtractionError == ErrorPrefix \o <<":"," ","P","D","F","]">>
GeminiError == ErrorPrefix \o <<":"," ","L","L","M","]">>
FailedToParse == <<"F","a","i","l","e","d"," ","t","o"," ","p","a","r","s","e">>
PolicyText == <<"c","a","p"," ","$","4","0">>
FormEmployee == <<"A","n","n"," ","L","e","e">>

\* What analyze_invoice_with_gemini returned for an invoice: its text, and what
\* json.loads makes of the text once the code fences are stripped (api.py
\* 39-40): not JSON, a JSON value that is no object, or an object.
JsonText == <<"{","}">>
NotJson == [text |-> <<"s","o","r","r","y">>, kind |-> "invalid", obj |-> NoFilters]
JsonList == [text |-> <<"[","]">>, kind |-> "list", obj |-> NoFilters]
LlmFailed == [text |-> GeminiError, kind |-> "invalid", obj |-> NoFilters]
JsonDeclined ==
    [text |-> JsonText, kind |-> "dict",
     obj |-> [status |-> S_Declined, reason |-> <<"o","v","e","r"," ","c","a","p">>,
              employee_name |-> <<"J","a","n","e"," ","D","o","e">>]]
JsonFullNoName ==
    [text |-> JsonText, kind |-> "dict",
     obj |-> [status |-> S_FullyReimbursed, reason |-> <<"o","k">>]]
JsonNullStatus ==
    [text |-> JsonText, kind |-> "dict",
     obj |-> [status |-> NoneValue, reason |-> <<"o","k">>]]

\* The entries of invoice_texts a request may hold, each with the LLM's answer
\* to it: file name, extracted text, response.
InvoiceCases ==
    {[fname |-> <<"a",".","p","d","f">>, response |-> JsonDeclined,
      text |-> <<"T","a","x","i"," ","f","a","r","e"," ","$","5","0">>],
     [fname |-> <<"b",".","p","d","f">>, response |-> JsonFullNoName,
      text |-> <<"L","u","n","c","h"," ","$","1","2">>],
     [fname |-> <<"c",".","p","d","f">>, response |-> JsonDeclined,
      text |-> ExtractionError],
     [fname |-> <<"d",".","p","d","f">>, response |-> LlmFailed,
      text |-> <<"H","o","t","e","l"," ","$","9","0">>],
     [fname |-> <<"e",".","p","d","f">>, response |-> NotJson,
      text |-> <<"B","u","s"," ","$","3">>],
     [fname |-> <<"f",".","p","d","f">>, response |-> JsonList,
      text |-> <<"B","u","s"," ","$","4">>],
     [fname |-> <<"g",".","p","d","f">>, response |-> JsonNullStatus,
      text |-> <<"B","u","s"," ","$","5">>]}

\* dict.get(key, default)
get(obj, key, default) == IF key \in DOMAIN obj THEN obj[key] ELSE default

\* api.py 31-50: process_invoice, given the LLM's response to this invoice.
process_invoice(fname, text, employee_name, response) ==
    IF startswith(text, ErrorPrefix)
    THEN [invoice_id |-> fname, error |-> text]
    ELSE IF startswith(response.text, ErrorPrefix)
    THEN [invoice_id |-> fname, error |-> response.text]
    ELSE IF response.kind = "dict"
    THEN [invoice_id    |-> fname,
          status        |-> get(response.obj, "status", <<>>),
          reason        |-> get(response.obj, "reason", <<>>),
          employee_name |-> get(response.obj, "employee_name", employee_name),
          date          |-> Today,
          full_text     |-> text]
    ELSE [invoice_id |-> fname, error |-> FailedToParse]

\* api.py 87: `not a.get("error")`.
HasError(a) == "error" \in DOMAIN a /\ a.error # <<>> /\ a.error # NoneValue

RECURSIVE WithoutErrors(_)
WithoutErrors(list) ==
    IF list = <<>> THEN <<>>
    ELSE (IF HasError(Head(list)) THEN <<>> ELSE <<Head(list)>>) \o WithoutErrors(Tail(list))

\* The orders as_completed may yield the futures of a request in: every
\* arrangement of its invoices.
Arrangements(cases) ==
    {order \in [1..Cardinality(cases) -> cases] :
        \A a, b \in 1..Cardinality(cases) : a # b => order[a] # order[b]}

Requests == {cases \in SUBSET InvoiceCases : Cardinality(cases) <= MaxInvoices}

\* ------------------------------------------------------------------- state
\* Workers 1 and 2 are two threads of process 1 (two sessions of the
\* Streamlit server); worker 3 is the one thread of process 2 (the FastAPI
\* server's event loop).
Procs == {1, 2}
Workers == {1, 2, 3}
ProcOf(w) == IF w = 3 THEN 2 ELSE 1

VARIABLES
    faiss_index,     \* per process: the vectors of the module's IndexFlatL2
    metadata_list,   \* per process: the module's list of metadata dicts
    embedded_from,   \* per process, history: the analysis each metadata dict came from
    disk_index,      \* the file at FAISS_INDEX_PATH
    disk_meta,       \* the file at FAISS_META_PATH
    disk_from,       \* history: embedded_from of the process that wrote disk_meta
    pc,              \* per worker: where it is in add_invoice_analysis_to_vector_db
    analyses,        \* per worker: the argument of its append call
    pos,             \* per worker: the loop index, 1-based
    embedding,       \* per worker: the local `embedding`
    outcome,         \* per worker: "loaded", "running", "returned" or "raised"
    entry,           \* per worker, history: the store and the files when its call began
    search,          \* the search call whose handler is running: arguments and return
    durable,         \* history: what the two files held when the last append call returned
    api              \* the /analyze_invoices request being served, and its response

vars == <<faiss_index, metadata_list, embedded_from, disk_index, disk_meta, disk_from,
          pc, analyses, pos, embedding, outcome, entry, search, durable, api>>

NoRequest ==
    [phase |-> "idle", invoice_texts |-> {}, analyses |-> <<>>,
     successful_analyses |-> <<>>, status_code |-> 0, success |-> FALSE]

NoSearch ==
    [active |-> FALSE, proc |-> 0, query |-> <<>>, top_k |-> 0, filters |-> NoFilters,
     raised |-> FALSE, results |-> <<>>]

Snapshot(p) ==
    [faiss_index |-> faiss_index[p], metadata_list |-> metadata_list[p],
     disk_index |-> disk_index, disk_meta |-> disk_meta]

Init ==
    /\ disk_index = NoIndexFile
    /\ disk_meta = NoMetaFile
    /\ disk_from = <<>>
    /\ faiss_index = [p \in Procs |-> Load(NoIndexFile, NoMetaFile).faiss_index]
    /\ metadata_list = [p \in Procs |-> Load(NoIndexFile, NoMetaFile).metadata_list]
    /\ embedded_from = [p \in Procs |-> <<>>]
    /\ pc = [w \in Workers |-> "idle"]
    /\ analyses = [w \in Workers |-> <<>>]
    /\ pos = [w \in Workers |-> 1]
    /\ embedding = [w \in Workers |-> <<>>]
    /\ outcome = [w \in Workers |-> "loaded"]
    /\ entry = [w \in Workers |-> [faiss_index |-> <<>>, metadata_list |-> <<>>,
                                   disk_index |-> NoIndexFile, disk_meta |-> NoMetaFile]]
    /\ search = NoSearch
    /\ durable = [faiss_index |-> <<>>, metadata_list |-> <<>>]
    /\ api = NoRequest

\* ------------------------------------------- add_invoice_analysis_to_vector_db
\* The call: vector_store.py 26-33.  An empty batch goes straight to persist.
Call(w, batch) ==
    /\ pc[w] = "idle"
    /\ ~search.active
    /\ Len(metadata_list[ProcOf(w)]) + Len(batch) <= MaxRecords
    /\ Len(faiss_index[ProcOf(w)]) + Len(batch) <= MaxRecords + MaxBatch
    /\ analyses' = [analyses EXCEPT ![w] = batch]
    /\ pos' = [pos EXCEPT ![w] = 1]
    /\ pc' = [pc EXCEPT ![w] = IF batch = <<>> THEN "write_index" ELSE "encode"]
    /\ outcome' = [outcome EXCEPT ![w] = "running"]
    /\ entry' = [entry EXCEPT ![w] = Snapshot(ProcOf(w))]
    /\ UNCHANGED <<durable, search, faiss_index, metadata_list, embedded_from, disk_index, disk_meta,
                   disk_from, embedding>>

NoEntry ==
    [faiss_index |-> <<>>, metadata_list |-> <<>>,
     disk_index |-> NoIndexFile, disk_meta |-> NoMetaFile]

\* The call is over: its locals are gone.
Leave(w, how) ==
    /\ pc' = [pc EXCEPT ![w] = "idle"]
    /\ outcome' = [outcome EXCEPT ![w] = how]
    /\ analyses' = [analyses EXCEPT ![w] = <<>>]
    /\ pos' = [pos EXCEPT ![w] = 1]
    /\ embedding' = [embedding EXCEPT ![w] = <<>>]
    /\ entry' = [entry EXCEPT ![w] = NoEntry]

\* The records a running call of worker w has still to append.
Pending(w) ==
    IF pc[w] \in {"encode", "add", "append"} THEN Len(analyses[w]) - pos[w] + 1 ELSE 0

\* A call by a caller that is not the /analyze_invoices handler.
DirectCall(w, batch) == Call(w, batch) /\ UNCHANGED api

\* A call made while other callers may be running: the store stays within
\* MaxShared records.
SharedCall(w, batch) ==
    /\ Len(metadata_list[ProcOf(w)]) + Len(batch)
          + Pending(1) + Pending(2) + Pending(3) <= MaxShared
    /\ DirectCall(w, batch)

\* The exception leaves the function: nothing is undone, nothing is persisted.
Raise(w) ==
    /\ Leave(w, "raised")
    /\ UNCHANGED <<api, durable, search, faiss_index, metadata_list, embedded_from, disk_index,
                   disk_meta, disk_from>>

\* vector_store.py 35: the concatenation raises TypeError on a None field.
ConcatRaises(w) ==
    /\ pc[w] = "encode"
    /\ ~ConcatOk(analyses[w][pos[w]])
    /\ Raise(w)

\* vector_store.py 36: the embedder raises.
EncodeRaises(w) ==
    /\ pc[w] = "encode"
    /\ ConcatOk(analyses[w][pos[w]])
    /\ Raise(w)

\* vector_store.py 35-37: the text is embedded.
Encode(w) ==
    /\ pc[w] = "encode"
    /\ ConcatOk(analyses[w][pos[w]])
    /\ embedding' = [embedding EXCEPT ![w] = encode(text_to_embed(analyses[w][pos[w]]))]
    /\ pc' = [pc EXCEPT ![w] = "add"]
    /\ UNCHANGED <<api, durable, search, faiss_index, metadata_list, embedded_from, disk_index, disk_meta,
                   disk_from, analyses, pos, outcome, entry>>

\* vector_store.py 38: faiss_index.add(embedding).
AddVector(w) ==
    /\ pc[w] = "add"
    /\ faiss_index' = [faiss_index EXCEPT ![ProcOf(w)] = IndexAdd(@, embedding[w])]
    /\ pc' = [pc EXCEPT ![w] = "append"]
    /\ UNCHANGED <<api, durable, search, metadata_list, embedded_from, disk_index, disk_meta, disk_from,
                   analyses, pos, embedding, outcome, entry>>

\* vector_store.py 39-45: metadata_list.append, then the next record or persist.
AppendMetadata(w) ==
    /\ pc[w] = "append"
    /\ metadata_list' = [metadata_list EXCEPT ![ProcOf(w)] =
                            Append(@, MetaOf(analyses[w][pos[w]]))]
    /\ embedded_from' = [embedded_from EXCEPT ![ProcOf(w)] = Append(@, analyses[w][pos[w]])]
    /\ pos' = [pos EXCEPT ![w] = @ + 1]
    /\ pc' = [pc EXCEPT ![w] = IF pos[w] = Len(analyses[w]) THEN "write_index" ELSE "encode"]
    /\ UNCHANGED <<api, durable, search, faiss_index, disk_index, disk_meta, disk_from, analyses, embedding,
                   outcome, entry>>

\* vector_store.py 47: faiss.write_index rewrites the whole index file.
WriteIndex(w) ==
    /\ pc[w] = "write_index"
    /\ disk_index' = write_index(faiss_index[ProcOf(w)])
    /\ pc' = [pc EXCEPT ![w] = "dump"]
    /\ UNCHANGED <<api, durable, search, faiss_index, metadata_list, embedded_from, disk_meta, disk_from,
                   analyses, pos, embedding, outcome, entry>>

\* vector_store.py 48-49: pickle.dump rewrites the whole metadata file; return.
DumpMetadata(w) ==
    /\ pc[w] = "dump"
    /\ disk_meta' = pickle_dump(metadata_list[ProcOf(w)])
    /\ disk_from' = embedded_from[ProcOf(w)]
    /\ durable' = [faiss_index |-> read_index(disk_index),
                   metadata_list |-> pickle_load(disk_meta')]
    /\ Leave(w, "returned")
    /\ UNCHANGED <<api, search, faiss_index, metadata_list, embedded_from, disk_index>>

\* vector_store.py 17-24: the process starts (again) and imports the module.
Reload(p) ==
    /\ faiss_index' = [faiss_index EXCEPT ![p] = Load(disk_index, disk_meta).faiss_index]
    /\ metadata_list' = [metadata_list EXCEPT ![p] = Load(disk_index, disk_meta).metadata_list]
    /\ embedded_from' = [embedded_from EXCEPT ![p] =
                            IF BothExist(disk_index, disk_meta) THEN disk_from ELSE <<>>]
    /\ pc' = [w \in Workers |-> IF ProcOf(w) = p THEN "idle" ELSE pc[w]]
    /\ outcome' = [w \in Workers |-> IF ProcOf(w) = p THEN "loaded" ELSE outcome[w]]
    /\ UNCHANGED <<api, durable, search, disk_index, disk_meta, disk_from>>

\* A restart between requests.
LoadModule(p) ==
    /\ ~search.active
    /\ \A w \in Workers : ProcOf(w) = p => pc[w] = "idle"
    /\ \E w \in Workers : ProcOf(w) = p /\ outcome[w] # "loaded"
    /\ Reload(p)
    /\ UNCHANGED <<analyses, pos, embedding, entry>>


\* ---------------------------------------------------------------- searching
Q_taxi == <<"t","a","x","i"," ","f","a","r","e">>
Q_declined_for_jane == <<"D","e","c","l","i","n","e","d"," ","f","o","r"," ","J","a","n","e"," ","D","o","e","?">>
Q_partially == <<"p","a","r","t","i","a","l","l","y"," ","r","e","i","m","b","u","r","s","e","d">>
Q_dated == <<"l","u","n","c","h"," ","o","n"," ","2","0","2","4","-","0","5","-","0","1">>

ChatQueries == {Q_taxi, Q_declined_for_jane, Q_partially, Q_dated}
SearchQueries == {Q_taxi, Q_dated}

\* Filters a direct caller of search_invoices may pass.
FilterChoices ==
    {NoFilters,
     [status |-> <<"d","e","c","l","i","n","e","d">>],
     [status |-> <<"R","E","I","M","B">>],
     [employee_name |-> <<"n","o","n","e">>],
     [status |-> <<"R","e","i","m","b","u","r","s","e","d">>,
      employee_name |-> <<"j","o","h","n">>],
     [full_text |-> <<"T","a","x","i">>],
     [date |-> <<"2","0","2","5">>]}

\* api.py 108, 1_Chatbot.py 30: top_k=15.
ChatTopK == 15

\* vector_store.py 56-85, run by an idle worker w with the store unchanged
\* throughout: the call returns one of its possible lists.  The worker is in
\* the handler that called it until Respond.
SearchReturns(w, query, top_k, filters) ==
    /\ pc[w] = "idle"
    /\ ~search.active
    /\ \/ Len(metadata_list[ProcOf(w)]) = 0
       \/ Len(filtered_indices(metadata_list[ProcOf(w)], filters)) = 0
       \/ ReconstructOk(faiss_index[ProcOf(w)], metadata_list[ProcOf(w)])
    /\ \E res \in search_invoices(faiss_index[ProcOf(w)], metadata_list[ProcOf(w)],
                                  query, top_k, filters) :
          search' = [active |-> TRUE, proc |-> ProcOf(w), query |-> query, top_k |-> top_k,
                     filters |-> filters, raised |-> FALSE, results |-> res]
    /\ UNCHANGED <<api, durable, faiss_index, metadata_list, embedded_from, disk_index,
                   disk_meta, disk_from, pc, analyses, pos, embedding, outcome, entry>>

\* vector_store.py 71, 75: reconstruct_n or the embedder raises; nothing returned.
SearchRaises(w, query, top_k, filters) ==
    /\ pc[w] = "idle"
    /\ ~search.active
    /\ Len(metadata_list[ProcOf(w)]) # 0
    /\ Len(filtered_indices(metadata_list[ProcOf(w)], filters)) # 0
    /\ search' = [active |-> TRUE, proc |-> ProcOf(w), query |-> query, top_k |-> top_k,
                  filters |-> filters, raised |-> TRUE, results |-> <<>>]
    /\ UNCHANGED <<api, durable, faiss_index, metadata_list, embedded_from, disk_index,
                   disk_meta, disk_from, pc, analyses, pos, embedding, outcome, entry>>

\* 1_Chatbot.py 31-38, api.py 109-113: the handler uses the results and ends.
Respond ==
    /\ search.active
    /\ search' = NoSearch
    /\ UNCHANGED <<api, durable, faiss_index, metadata_list, embedded_from, disk_index,
                   disk_meta, disk_from, pc, analyses, pos, embedding, outcome, entry>>

\* A direct call of search_invoices.
Search(w) ==
    \E query \in SearchQueries, top_k \in 1..MaxTopK, filters \in FilterChoices :
        \/ SearchReturns(w, query, top_k, filters)
        \/ SearchRaises(w, query, top_k, filters)

\* 1_Chatbot.py 26-30, api.py 106-108: the filters come from the query itself.
Chat(w) ==
    \E query \in ChatQueries :
        \/ SearchReturns(w, query, ChatTopK, extract_metadata_filters(query))
        \/ SearchRaises(w, query, ChatTopK, extract_metadata_filters(query))

\* The pieces the queries of the filter extraction are put together from.
QueryWords ==
    {<<"d","e","c","l","i","n","e","d">>,
     <<"R","e","i","m","b","u","r","s","e","d">>,
     <<"p","a","r","t","i","a","l">>,
     <<"l","y"," ">>,
     <<"F","U","L","L","Y"," ">>,
     <<"n","o","t"," ">>,
     <<" ","b","y"," ","J","a","n","e"," ","D","o","e">>,
     <<" ","2","0","2","4","/","0","5","/","0","1">>}

RECURSIVE Join(_)
Join(words) == IF words = <<>> THEN <<>> ELSE Head(words) \o Join(Tail(words))

FilterQueries == {Join(words) : words \in SeqsUpTo(QueryWords, MaxWords)}

\* 1_Chatbot.py 20-30 with any of the queries: the filters are extracted and
\* the search is run with them.
Ask(w) ==
    \E query \in FilterQueries :
        SearchReturns(w, query, ChatTopK, extract_metadata_filters(query))

\* ------------------------------------- search_invoices, statement by statement
\* A search call run by a thread while another thread of the same process may
\* be inside add_invoice_analysis_to_vector_db: the function takes no lock, so
\* every read of the globals sees whatever the other thread has done so far.
\* The call's locals are kept in `search` with the statement it is at.
ReaderFilters == {NoFilters, [status |-> <<"d","e","c","l","i","n","e","d">>]}

Searching(step, p, query, top_k, filters, kept, embeddings, I, D) ==
    [active |-> FALSE, proc |-> p, query |-> query, top_k |-> top_k, filters |-> filters,
     raised |-> FALSE, results |-> <<>>, step |-> step, filtered_indices |-> kept,
     filtered_embeddings |-> embeddings, I |-> I, D |-> D]

SearchEnded(raised, results) ==
    [search EXCEPT !.active = TRUE, !.raised = raised, !.results = results, !.step = "done"]

SearchRunning == "step" \in DOMAIN search /\ search.step # "done"

\* vector_store.py 51: the call begins.
SearchEnter(w) ==
    /\ pc[w] = "idle"
    /\ search = NoSearch
    /\ \E query \in SearchQueries, top_k \in 1..MaxTopK, filters \in ReaderFilters :
          search' = Searching("filter", ProcOf(w), query, top_k, filters, <<>>, <<>>, <<>>, <<>>)
    /\ UNCHANGED <<api, durable, faiss_index, metadata_list, embedded_from, disk_index,
                   disk_meta, disk_from, pc, analyses, pos, embedding, outcome, entry>>

\* vector_store.py 56-69: metadata_list is read; an empty list or no matching
\* record returns [].
SearchFilter ==
    /\ SearchRunning
    /\ search.step = "filter"
    /\ \E kept \in {filtered_indices(metadata_list[search.proc], search.filters)} :
          search' = IF Len(metadata_list[search.proc]) = 0 \/ Len(kept) = 0
                    THEN SearchEnded(FALSE, <<>>)
                    ELSE [search EXCEPT !.step = "reconstruct", !.filtered_indices = kept]
    /\ UNCHANGED <<api, durable, faiss_index, metadata_list, embedded_from, disk_index,
                   disk_meta, disk_from, pc, analyses, pos, embedding, outcome, entry>>

\* vector_store.py 71-73: len(metadata_list) is read again and that many vectors
\* are read from faiss_index; the vectors at filtered_indices are kept.
SearchReconstruct ==
    /\ SearchRunning
    /\ search.step = "reconstruct"
    /\ ReconstructOk(faiss_index[search.proc], metadata_list[search.proc])
    /\ search' = [search EXCEPT
                    !.step = "knn",
                    !.filtered_embeddings =
                        [j \in 1..Len(search.filtered_indices) |->
                            faiss_index[search.proc][search.filtered_indices[j]]]]
    /\ UNCHANGED <<api, durable, faiss_index, metadata_list, embedded_from, disk_index,
                   disk_meta, disk_from, pc, analyses, pos, embedding, outcome, entry>>

\* vector_store.py 71, 75: reconstruct_n finds too few vectors, or the embedder
\* raises on the query.
SearchFails ==
    /\ SearchRunning
    /\ \/ search.step = "knn"
       \/ /\ search.step = "reconstruct"
          /\ ~ReconstructOk(faiss_index[search.proc], metadata_list[search.proc])
    /\ search' = SearchEnded(TRUE, <<>>)
    /\ UNCHANGED <<api, durable, faiss_index, metadata_list, embedded_from, disk_index,
                   disk_meta, disk_from, pc, analyses, pos, embedding, outcome, entry>>

\* vector_store.py 75-80: the query is embedded and the temporary index over
\* the kept vectors is searched.
SearchKnn ==
    /\ SearchRunning
    /\ search.step = "knn"
    /\ \E D \in {SearchDistances(search.filtered_embeddings,
                                 AllIndices(search.filtered_embeddings), query_vec) :
                    query_vec \in {encode(search.query)}} :
          \E I \in KnnAnswers(D, Len(search.filtered_indices),
                              Min(search.top_k, Len(search.filtered_indices))) :
              search' = [search EXCEPT !.step = "collect", !.I = I, !.D = D]
    /\ UNCHANGED <<api, durable, faiss_index, metadata_list, embedded_from, disk_index,
                   disk_meta, disk_from, pc, analyses, pos, embedding, outcome, entry>>

\* vector_store.py 81-85: metadata_list is read at each real_idx; return.
SearchCollect ==
    /\ SearchRunning
    /\ search.step = "collect"
    /\ search' = SearchEnded(FALSE,
                    [r \in 1..Len(search.I) |->
                        [score |-> search.D[search.I[r]],
                         meta |-> metadata_list[search.proc][search.filtered_indices[search.I[r]]],
                         real_idx |-> search.filtered_indices[search.I[r]]]])
    /\ UNCHANGED <<api, durable, faiss_index, metadata_list, embedded_from, disk_index,
                   disk_meta, disk_from, pc, analyses, pos, embedding, outcome, entry>>

\* ----------------------------------------------------- POST /analyze_invoices
\* api.py 65-74: the policy PDF or the ZIP cannot be read: 400.
ApiReject ==
    /\ api.phase = "idle"
    /\ pc[3] = "idle"
    /\ \E policy_text \in {PolicyText, ExtractionError},
          names \in {<<>>, <<ZipErrorName>>} :
          /\ startswith(policy_text, ErrorPrefix)
                \/ \E i \in 1..Len(names) : startswith(names[i], ZipErrorName)
          /\ api' = [phase |-> "responded", invoice_texts |-> {}, analyses |-> <<>>,
                     successful_analyses |-> <<>>, status_code |-> 400, success |-> FALSE]
    /\ UNCHANGED <<faiss_index, metadata_list, embedded_from, disk_index, disk_meta,
                   disk_from, pc, analyses, pos, embedding, outcome, entry, search, durable>>

\* api.py 76-89: every invoice is analysed in the pool, the results are taken
\* in completion order, and the ones without error are handed to append.
ApiAnalyze ==
    /\ api.phase = "idle"
    /\ \E cases \in Requests : \E order \in Arrangements(cases) :
          LET done == [i \in 1..Len(order) |->
                          process_invoice(order[i].fname, order[i].text, FormEmployee,
                                          order[i].response)]
              good == WithoutErrors(done)
          IN  IF good # <<>>
              THEN /\ Call(3, good)
                   /\ api' = [phase |-> "appending", invoice_texts |-> cases,
                              analyses |-> done, successful_analyses |-> good,
                              status_code |-> 0, success |-> FALSE]
              ELSE /\ pc[3] = "idle"
                   /\ api' = [phase |-> "responded", invoice_texts |-> cases,
                              analyses |-> done, successful_analyses |-> good,
                              status_code |-> 200, success |-> TRUE]
                   /\ UNCHANGED <<faiss_index, metadata_list, embedded_from, disk_index,
                                  disk_meta, disk_from, pc, analyses, pos, embedding,
                                  outcome, entry, search, durable>>

\* api.py 91: append returned; the response reports success.
ApiReturn ==
    /\ api.phase = "appending"
    /\ pc[3] = "idle"
    /\ outcome[3] = "returned"
    /\ api' = [api EXCEPT !.phase = "responded", !.status_code = 200, !.success = TRUE]
    /\ UNCHANGED <<faiss_index, metadata_list, embedded_from, disk_index, disk_meta,
                   disk_from, pc, analyses, pos, embedding, outcome, entry, search, durable>>

\* api.py 92-94: append raised; the catch-all answers 500.
ApiCatch ==
    /\ api.phase = "appending"
    /\ pc[3] = "idle"
    /\ outcome[3] = "raised"
    /\ api' = [api EXCEPT !.phase = "responded", !.status_code = 500, !.success = FALSE]
    /\ UNCHANGED <<faiss_index, metadata_list, embedded_from, disk_index, disk_meta,
                   disk_from, pc, analyses, pos, embedding, outcome, entry, search, durable>>

\* The response is sent; the server waits for the next request.
ApiDone ==
    /\ api.phase = "responded"
    /\ api' = NoRequest
    /\ UNCHANGED <<faiss_index, metadata_list, embedded_from, disk_index, disk_meta,
                   disk_from, pc, analyses, pos, embedding, outcome, entry, search, durable>>

\* ------------------------------------------------------------ specifications
\* One process, one thread: calls follow one another.
Next ==
    \/ \E b \in Batches : DirectCall(1, b)
    \/ ConcatRaises(1)
    \/ EncodeRaises(1)
    \/ Encode(1)
    \/ AddVector(1)
    \/ AppendMetadata(1)
    \/ WriteIndex(1)
    \/ DumpMetadata(1)
    \/ LoadModule(1)
    \/ Search(1)
    \/ Chat(1)
    \/ Respond

Spec == Init /\ [][Next]_vars

\* The process is killed inside an append call and started again.
Crash(p) ==
    /\ \E w \in Workers : ProcOf(w) = p /\ pc[w] # "idle"
    /\ Reload(p)
    /\ analyses' = [w \in Workers |-> IF ProcOf(w) = p THEN <<>> ELSE analyses[w]]
    /\ pos' = [w \in Workers |-> IF ProcOf(w) = p THEN 1 ELSE pos[w]]
    /\ embedding' = [w \in Workers |-> IF ProcOf(w) = p THEN <<>> ELSE embedding[w]]
    /\ entry' = [w \in Workers |-> IF ProcOf(w) = p THEN NoEntry ELSE entry[w]]

\* One process, one thread, killed and restarted at any point.
NextCrash ==
    \/ \E b \in Batches : DirectCall(1, b)
    \/ ConcatRaises(1)
    \/ EncodeRaises(1)
    \/ Encode(1)
    \/ AddVector(1)
    \/ AppendMetadata(1)
    \/ WriteIndex(1)
    \/ DumpMetadata(1)
    \/ LoadModule(1)
    \/ Crash(1)

SpecCrash == Init /\ [][NextCrash]_vars

\* Two threads of one process share the module globals (two Streamlit
\* sessions running the Submit handler): their steps interleave.
NextThreads ==
    \/ \E w \in {1, 2}, b \in ConcurrentBatches : SharedCall(w, b)
    \/ \E w \in {1, 2} : ConcatRaises(w)
    \/ \E w \in {1, 2} : EncodeRaises(w)
    \/ \E w \in {1, 2} : Encode(w)
    \/ \E w \in {1, 2} : AddVector(w)
    \/ \E w \in {1, 2} : AppendMetadata(w)
    \/ \E w \in {1, 2} : WriteIndex(w)
    \/ \E w \in {1, 2} : DumpMetadata(w)

SpecThreads == Init /\ [][NextThreads]_vars

\* Two processes (the Streamlit server and the FastAPI server), one thread
\* each, each with the copy of the store it loaded when it started.
NextProcs ==
    \/ \E w \in {1, 3}, b \in ConcurrentBatches : SharedCall(w, b)
    \/ \E w \in {1, 3} : ConcatRaises(w)
    \/ \E w \in {1, 3} : EncodeRaises(w)
    \/ \E w \in {1, 3} : Encode(w)
    \/ \E w \in {1, 3} : AddVector(w)
    \/ \E w \in {1, 3} : AppendMetadata(w)
    \/ \E w \in {1, 3} : WriteIndex(w)
    \/ \E w \in {1, 3} : DumpMetadata(w)
    \/ \E p \in Procs : LoadModule(p)

SpecProcs == Init /\ [][NextProcs]_vars

\* The FastAPI server: its handler is async and calls append without awaiting,
\* so requests are served one after the other on the event loop.
NextApi ==
    \/ ApiReject
    \/ ApiAnalyze
    \/ ConcatRaises(3)
    \/ EncodeRaises(3)
    \/ Encode(3)
    \/ AddVector(3)
    \/ AppendMetadata(3)
    \/ WriteIndex(3)
    \/ DumpMetadata(3)
    \/ ApiReturn
    \/ ApiCatch
    \/ ApiDone

SpecApi == Init /\ [][NextApi]_vars

\* The filter extraction alone, applied to every query of FilterQueries.
NextFilters ==
    \/ Ask(1)
    \/ Respond

SpecFilters == Init /\ [][NextFilters]_vars

\* Two sessions of the Streamlit server, each on its own thread of the one
\* process: thread 1 submits batches on the Reimbursement page, thread 2 asks
\* on the Chatbot page.
NextReaders ==
    \/ \E b \in ConcurrentBatches : SharedCall(1, b)
    \/ ConcatRaises(1)
    \/ EncodeRaises(1)
    \/ Encode(1)
    \/ AddVector(1)
    \/ AppendMetadata(1)
    \/ WriteIndex(1)
    \/ DumpMetadata(1)
    \/ SearchEnter(2)
    \/ SearchFilter
    \/ SearchReconstruct
    \/ SearchFails
    \/ SearchKnn
    \/ SearchCollect
    \/ Respond

SpecReaders == Init /\ [][NextReaders]_vars

\* ------------------------------------------------- claims checked under Spec
\* Vector i of process p's index is the embedding of the text of the analysis
\* whose metadata is at position i, and the two are equally long.
Positional(p) ==
    /\ Len(faiss_index[p]) = Len(metadata_list[p])
    /\ Len(embedded_from[p]) = Len(metadata_list[p])
    /\ \A i \in 1..Len(metadata_list[p]) :
          /\ i <= Len(faiss_index[p])
          /\ i <= Len(embedded_from[p])
          /\ metadata_list[p][i] = MetaOf(embedded_from[p][i])
          /\ faiss_index[p][i] = encode(text_to_embed(embedded_from[p][i]))

\* C1: between the calls of any sequence of append calls on a fresh or loaded
\* store (returned or raised), the index and the metadata list are equally long
\* and the vector at each position is the embedding of full_text + status +
\* reason of the record whose metadata is at that position.
C1_PositionalInvariant == pc[1] = "idle" => Positional(1)

\* C1's case: a store loaded from the files that earlier append calls wrote,
\* holding records with different vectors.
C1_Witness ==
    /\ pc[1] = "idle"
    /\ outcome[1] = "loaded"
    /\ Len(metadata_list[1]) = MaxRecords
    /\ faiss_index[1][1] # faiss_index[1][2]

\* C2: when an append call raises (the embedding of some record fails), the
\* in-memory index, the in-memory metadata list and both files are as they
\* were when the call began.
C2_AllOrNothing ==
    [][\A w \in Workers :
         (outcome[w] = "running" /\ outcome'[w] = "raised") =>
            /\ faiss_index'[ProcOf(w)] = entry[w].faiss_index
            /\ metadata_list'[ProcOf(w)] = entry[w].metadata_list
            /\ disk_index' = entry[w].disk_index
            /\ disk_meta' = entry[w].disk_meta]_vars

\* The filter rule as the specification words it: every filter key exists in
\* the record and the lowered value is a substring of the lowered field.
MatchesAsSpecified(meta, filters) ==
    \A k \in DOMAIN filters :
        k \in DOMAIN meta /\ Contains(lower(filters[k]), lower(str(meta[k])))

Searched == search.active /\ ~search.raised

\* C5: every record search_invoices returns has every filter key, with the
\* lowered filter value a substring of the lowered field; a record lacking a
\* filter key is never returned.
C5_FilterCorrectness ==
    Searched => \A r \in 1..Len(search.results) :
                    MatchesAsSpecified(search.results[r].meta, search.filters)

CountMatching(list, filters) ==
    Cardinality({i \in 1..Len(list) : MatchesAsSpecified(list[i], filters)})

\* C6: search_invoices returns at most min(top_k, number of records matching
\* the filters) results, each a distinct stored record, and none when the
\* store is empty or no record matches the filters.
C6_TopKBound ==
    Searched =>
        LET list == metadata_list[search.proc]
            res == search.results
        IN  /\ Len(res) <= Min(search.top_k, CountMatching(list, search.filters))
            /\ \A r \in 1..Len(res) :
                  /\ res[r].real_idx \in 1..Len(list)
                  /\ res[r].meta = list[res[r].real_idx]
            /\ \A a, b \in 1..Len(res) : a # b => res[a].real_idx # res[b].real_idx
            /\ (Len(list) = 0 \/ CountMatching(list, search.filters) = 0) => res = <<>>

\* The results are nearest first, each with the distance of its own vector.
AscendingDistance ==
    LET res == search.results
    IN  /\ \A a, b \in 1..Len(res) : a < b => res[a].score <= res[b].score
        /\ \A r \in 1..Len(res) :
              res[r].score = L2sqr(faiss_index[search.proc][res[r].real_idx],
                                   encode(search.query))

TiesInInsertionOrder ==
    LET res == search.results
    IN  \A a, b \in 1..Len(res) :
            (a < b /\ res[a].score = res[b].score) => res[a].real_idx < res[b].real_idx

IsPrefix(s, t) == Len(s) <= Len(t) /\ \A i \in 1..Len(s) : s[i] = t[i]

\* C3: every record the files held when an append call returned is in them,
\* unchanged and at the same position, ever after, whichever process appends.
C3_RecordsNeverLost ==
    /\ IsPrefix(durable.metadata_list, pickle_load(disk_meta))
    /\ IsPrefix(durable.faiss_index, read_index(disk_index))

\* ----------------------------------------- claims checked under SpecThreads
\* C4: after concurrent append calls on one in-process store have all
\* finished, vector i still belongs to metadata i.
C4_CriticalSection == (\A w \in {1, 2} : pc[w] = "idle") => Positional(1)

\* ------------------------------------------- claims checked under SpecCrash
Memory(p) == [faiss_index |-> faiss_index[p], metadata_list |-> metadata_list[p]]

\* C8: once an append call has returned, loading the two files gives the
\* in-memory index and metadata list back, position by position; and a load
\* that does not find both files leaves an empty index and an empty list.
C8_RoundTrip ==
    /\ outcome[1] = "returned" => Load(disk_index, disk_meta) = Memory(1)
    /\ outcome[1] = "loaded" =>
          IF disk_index.exists /\ disk_meta.exists
          THEN Memory(1) = [faiss_index |-> read_index(disk_index),
                            metadata_list |-> pickle_load(disk_meta)]
          ELSE Memory(1) = [faiss_index |-> <<>>, metadata_list |-> <<>>]

\* C8's case: the process was started on the files an append call of several
\* records left.
C8_Witness ==
    /\ outcome[1] = "loaded"
    /\ Len(metadata_list[1]) >= 2
    /\ Len(faiss_index[1]) = Len(metadata_list[1])
    /\ metadata_list[1][1] # metadata_list[1][2]

\* A load that found only the index file (the process was killed between the
\* two writes of the first append).
C8_PartialPresence ==
    /\ outcome[1] = "loaded"
    /\ disk_index.exists
    /\ ~disk_meta.exists

\* --------------------------------------------- claims checked under SpecApi
\* The analysis of an invoice failed: its extraction, the LLM call, or the
\* parsing of the LLM's answer into a JSON object.
AnalysisFailed(c) ==
    \/ startswith(c.text, ErrorPrefix)
    \/ startswith(c.response.text, ErrorPrefix)
    \/ c.response.kind # "dict"

ReportedWithError(c) ==
    \E i \in 1..Len(api.analyses) :
        /\ api.analyses[i].invoice_id = c.fname
        /\ "error" \in DOMAIN api.analyses[i]
        /\ api.analyses[i].error # <<>>

PassedToAppend(c) ==
    \E i \in 1..Len(api.successful_analyses) :
        api.successful_analyses[i].invoice_id = c.fname

\* The records handed to append are the last records of the server's store
\* and of the metadata file, in the order they were handed over.
AllAppended ==
    LET passed == api.successful_analyses
        list == metadata_list[ProcOf(3)]
        first == Len(list) - Len(passed)
    IN  /\ first >= 0
        /\ \A i \in 1..Len(passed) : list[first + i] = MetaOf(passed[i])
        /\ (passed # <<>>) => pickle_load(disk_meta) = list

Answered == api.phase = "responded" /\ api.status_code # 400

FailuresKeptOut ==
    \A c \in api.invoice_texts :
        IF AnalysisFailed(c)
        THEN ReportedWithError(c) /\ ~PassedToAppend(c)
        ELSE ~ReportedWithError(c) /\ PassedToAppend(c)

\* C7 as claimed: every invoice whose analysis failed is reported with an
\* error and not passed to append, every other invoice of the batch is appended
\* to the store, and the request reports success.
C7_NoPoisoning == Answered => (FailuresKeptOut /\ AllAppended /\ api.success)

\* C7 as amended: every invoice whose analysis failed is reported with an error
\* and not passed to append, and every other invoice of the batch is passed to
\* append in one call; if that call returns they are all in the store and the
\* request reports success, and the request fails only if that call raises.
C7_NoPoisoningUnlessAppendRaises ==
    Answered =>
        /\ FailuresKeptOut
        /\ api.success => (AllAppended /\ api.status_code = 200)
        /\ ~api.success => (outcome[3] = "raised" /\ api.status_code = 500
                            /\ api.successful_analyses # <<>>)

\* C7's case: a request with a failed and a successfully analysed invoice was
\* answered with success.
C7_Witness ==
    /\ Answered
    /\ api.success
    /\ \E c, d \in api.invoice_texts : AnalysisFailed(c) /\ ~AnalysisFailed(d)
    /\ Len(metadata_list[ProcOf(3)]) >= 2

\* ----------------------------------------- claims checked under SpecFilters
\* C9: extract_metadata_filters gives status Declined if the lowered query
\* contains "declined"; otherwise Fully Reimbursed if it contains "reimbursed"
\* (so also for "partially reimbursed" and "fully reimbursed"); otherwise
\* Partially Reimbursed if it contains "partial"; otherwise no status key.
C9_StatusFirstMatch ==
    search.active =>
        LET q == lower(search.query)
            f == search.filters
        IN  IF Contains(K_declined, q)
            THEN "status" \in DOMAIN f /\ f["status"] = S_Declined
            ELSE IF Contains(K_reimbursed, q)
            THEN "status" \in DOMAIN f /\ f["status"] = S_FullyReimbursed
            ELSE IF Contains(K_partial, q)
            THEN "status" \in DOMAIN f /\ f["status"] = S_PartiallyReimbursed
            ELSE "status" \notin DOMAIN f

\* C9's case: a query that says "partially Reimbursed", in mixed case, was
\* classified Fully Reimbursed.
C9_Witness ==
    /\ search.active
    /\ Contains(K_partially_reimbursed, lower(search.query))
    /\ ~Contains(K_partially_reimbursed, search.query)
    /\ DOMAIN search.filters = {"status"}
    /\ search.filters["status"] = S_FullyReimbursed

\* ----------------------------------------- claims checked under SpecReaders
\* Worker w's append call has made its first mutation (line 38 for its first
\* record) and has not yet finished persisting (line 49).
InAppendWindow(w) ==
    \/ pc[w] = "append"
    \/ pc[w] \in {"encode", "add"} /\ pos[w] > 1
    \/ pc[w] \in {"write_index", "dump"} /\ analyses[w] # <<>>

SearchOverlapsAppend ==
    \E w \in Workers : ProcOf(w) = search.proc /\ InAppendWindow(w)

\* Every returned pair has the distance of the vector that was produced from
\* the record it is returned with.
PairsFromOwnVector ==
    \A r \in 1..Len(search.results) :
        LET res == search.results[r]
            from == embedded_from[search.proc][res.real_idx]
        IN  /\ res.meta = MetaOf(from)
            /\ res.score = L2sqr(encode(text_to_embed(from)), encode(search.query))

\* C11: a search_invoices call never runs while an append call on the same
\* store is between its first mutation and the end of persist, so wherever the
\* search reads the index or the metadata list they are equally long, and
\* every returned (distance, record) pair uses the vector produced from that
\* record.
C11_NoTornReads ==
    /\ SearchRunning =>
          /\ ~SearchOverlapsAppend
          /\ Len(faiss_index[search.proc]) = Len(metadata_list[search.proc])
    /\ Searched => PairsFromOwnVector

\* What the code does keep with one appending thread: the pairs returned are
\* right, since both structures only grow and the vector is added first.
C11_PairsFromOwnVector == Searched => PairsFromOwnVector

\* A search returned records although it had read the store inside the window
\* of an append.
C11_TornReadReturned ==
    /\ Searched
    /\ search.results # <<>>
    /\ Len(faiss_index[search.proc]) > Len(metadata_list[search.proc])

====
